---- MODULE Spec2Model ----
(***************************************************************************)
(* The LinkedIn job scrapper (src/scrapper/linkedin_job_scrapper.py) as a  *)
(* state machine: main() is one sequential coroutine whose position is pc; *)
(* every browser interaction is an input of the environment that either    *)
(* answers or raises.                                                      *)
(***************************************************************************)
EXTENDS Integers, Sequences, FiniteSets, TLC

\* ---------------------------------------------------------------- bounds
NumIds == 2          \* distinct posting identifiers the site can show
MaxPageLen == 2      \* result cards enumerated on one page
MaxPages == 2        \* page numbers >= MaxPages are identified with MaxPages
NUMBER_OF_JOBS_TO_BE_SCRAPPED == 2   \* 300 in the source, scaled down
MaxFileRows == 2     \* rows of an interchange file given to the loader
MaxLoads == 2        \* runs of the loader on one file
ScoreSlack == 2      \* replied scores range over -ScoreSlack..10+ScoreSlack
MaxVisits == 3       \* enumerations that return the same identifier
MaxRuns == 2         \* runs of the scoring workflow on one table

JobIds == 1..NumIds

\* Detail fields whose extraction the environment may fail during a crawl.
FaultyFields == {"title"}

VARIABLES
    pc,            \* position of main()
    jobs,          \* the jobs dict, in insertion order (sequence of Job records)
    job_ids_left,  \* how many identifiers of job_ids the for loop has not iterated yet
    page_num,      \* main()'s page counter
    session,       \* browser session: "anon" | "auth"
    token,         \* STORAGE_PATH: [state: "none" | "stored" | "written", writes: Nat]
    creds,         \* what login() found: "unused" | "absent" | "rejected" | "valid"
    easy,          \* postings whose apply control reads "Easy Apply"
    lastNav,       \* the most recent navigation: [obs, ret, raised, kind]
    last,          \* path taken by the most recent iteration of save_job_details
                   \* ("none" once the next page's identifiers are collected)
    ending,        \* how the crawl loop ended: "none" | "target" | "exception"
    flushes,       \* number of calls of save_jobs_to_csv
    csv,           \* the interchange file: [exists, rows]
    pane,          \* one iteration of save_job_details run on its own: input and result
    db,            \* the job table of the loader and the file it is given
    match          \* one call of JobMatcher.analyze_job_match: reply and result

\* the crawl (src/scrapper) and the steps that are separate processes
offline == <<pane, db, match>>

vars == <<pc, jobs, job_ids_left, page_num, session, token, creds, easy, lastNav,
          last, ending, flushes, csv, pane, db, match>>

\* ------------------------------------------------------------ pure parts

\* `job_id in jobs` (line 94)
InJobsMutant(js, id) == FALSE
InJobsAlways(js, id) == TRUE
InJobs(js, id) == \E i \in 1..Len(js) : js[i].job_id = id

\* jobs[job_id] = job (line 198): a dict assignment replaces the value of an
\* existing key in place and appends a new key at the end.
DictSet(js, id, job) ==
    IF \E i \in 1..Len(js) : js[i].job_id = id
    THEN [i \in 1..Len(js) |-> IF js[i].job_id = id THEN job ELSE js[i]]
    ELSE Append(js, job)

\* str.strip() on the texts the model uses (lines 189-195)
Strip(s) ==
    CASE s = " Engineer " -> "Engineer"
      [] s = " Acme " -> "Acme"
      [] s = " Remote " -> "Remote"
      [] s = " Build things " -> "Build things"
      [] OTHER -> s

\* inner_text() of a detail field, as rendered on the page
PageText(f) ==
    CASE f = "title" -> " Engineer "
      [] f = "company" -> " Acme "
      [] f = "job_info" -> " Remote "
      [] f = "job_description" -> " Build things "

\* try: inner_text() except: "N/A" (lines 111-126, 172-175)
ExtractTextMutant(f, failed) == IF failed # {} THEN "N/A" ELSE PageText(f)
ExtractText(f, failed) == IF f \in failed THEN "N/A" ELSE PageText(f)

\* lines 128-134: all_inner_texts(), stripped, empty ones dropped
ExtractTags(failed) == IF "job_tags" \in failed THEN << >> ELSE <<"Full-time">>

\* line 98
LinkedinUrl(id) == <<"https://www.linkedin.com/jobs/search/?currentJobId=", id>>

\* Job(...) (lines 187-196)
NewJob(id, failed, apply_url) ==
    [job_id |-> id,
     title |-> Strip(ExtractText("title", failed)),
     company |-> Strip(ExtractText("company", failed)),
     job_info |-> Strip(ExtractText("job_info", failed)),
     job_tags |-> ExtractTags(failed),
     job_description |-> Strip(ExtractText("job_description", failed)),
     linkedin_url |-> LinkedinUrl(id),
     apply_url |-> Strip(apply_url)]

\* ------------------------------------------- navigate_to_search_page_with_filters

\* What the browser does during one navigation: page.goto, the settle wait and
\* the is_visible() probe of the sign-in button each answer or raise.
NavEnvs ==
    {[goto |-> "raise", settle |-> "-", probe |-> "-"],
     [goto |-> "ok", settle |-> "raise", probe |-> "-"],
     [goto |-> "ok", settle |-> "ok", probe |-> "raise"],
     [goto |-> "ok", settle |-> "ok", probe |-> "visible"],
     [goto |-> "ok", settle |-> "ok", probe |-> "hidden"]}

\* The page as the environment produced it.
NavObs(n) ==
    IF n.goto = "raise" \/ n.settle = "raise" \/ n.probe = "raise" THEN "exception"
    ELSE IF n.probe = "visible" THEN "signin" ELSE "clear"

NavigateMutant(n) ==
    IF n.goto = "raise" \/ n.settle = "raise" THEN [ret |-> FALSE, raised |-> FALSE]
    ELSE IF n.probe = "raise" THEN [ret |-> TRUE, raised |-> FALSE]
    ELSE IF n.probe = "visible" THEN [ret |-> FALSE, raised |-> FALSE]
    ELSE [ret |-> TRUE, raised |-> FALSE]

\* lines 58-74: the value returned, and whether an exception leaves the function
navigate_to_search_page_with_filters(n) ==
    IF n.goto = "raise" \/ n.settle = "raise" \/ n.probe = "raise"
    THEN [ret |-> FALSE, raised |-> FALSE]               \* except Exception: return False
    ELSE IF n.probe = "visible"
         THEN [ret |-> FALSE, raised |-> FALSE]          \* sign-in popup detected
         ELSE [ret |-> TRUE, raised |-> FALSE]

\* The sign-in button is shown to a session that is not authenticated.
NavEnvsOf(sess) ==
    {n \in NavEnvs : /\ n.probe = "visible" => sess = "anon"
                     /\ n.probe = "hidden" => sess = "auth"}

NavRecord(n, kind) ==
    LET r == navigate_to_search_page_with_filters(n)
    IN [obs |-> NavObs(n), ret |-> r.ret, raised |-> r.raised, kind |-> kind]

\* ------------------------------------------------------------------ login

\* LINKEDIN_EMAIL / LINKEDIN_PASSWORD (lines 13-14) and what the site makes of
\* them; fail names the browser call of login() that raises, if any.
LoginEnvs ==
    {[creds |-> c, fail |-> f] :
        c \in {"absent", "rejected", "valid"}, f \in {"none", "goto", "submit", "storage"}}

loginMutant(l, sess, tok) ==
    [raised |-> FALSE, session |-> sess,
     token |-> [state |-> "written", writes |-> tok.writes + 2]]
\* lines 31-44. page.fill(selector, None) raises when a credential is not set.
\* Nothing in login() looks at whether the site accepted the credentials.
login(l, sess, tok) ==
    IF l.fail = "goto" THEN [raised |-> TRUE, session |-> sess, token |-> tok]
    ELSE IF l.creds = "absent" THEN [raised |-> TRUE, session |-> sess, token |-> tok]
    ELSE LET s2 == IF l.creds = "valid" THEN "auth" ELSE "anon"
         IN IF l.fail = "submit" THEN [raised |-> TRUE, session |-> s2, token |-> tok]
            ELSE IF l.fail = "storage" THEN [raised |-> TRUE, session |-> s2, token |-> tok]
            ELSE [raised |-> FALSE, session |-> s2,
                  token |-> [state |-> "written", writes |-> tok.writes + 1]]

\* --------------------------------------------------- Apply URL logic (136-169)

PopupUrl == "https://careers.example/apply"

\* probe: is_visible() of the apply button; label: its inner_text();
\* first: the expect_page block around the click (lines 149-152);
\* cont: the Continue control; second: the second expect_page block (154-159);
\* close: the settle wait and close() of the new tab (164-165).
ApplyEnvs ==
    {[probe |-> "hidden", label |-> "-", first |-> "-", cont |-> "-", second |-> "-", close |-> "-"],
     [probe |-> "raise", label |-> "-", first |-> "-", cont |-> "-", second |-> "-", close |-> "-"],
     [probe |-> "visible", label |-> "raise", first |-> "-", cont |-> "-", second |-> "-", close |-> "-"],
     [probe |-> "visible", label |-> "Easy Apply", first |-> "-", cont |-> "-", second |-> "-", close |-> "-"]}
    \cup {[probe |-> "visible", label |-> "Apply", first |-> "popup", cont |-> k, second |-> "-", close |-> c] :
            k \in {"absent", "present"}, c \in {"ok", "raise"}}
    \cup {[probe |-> "visible", label |-> "Apply", first |-> f, cont |-> "absent", second |-> "-", close |-> "-"] :
            f \in {"timeout", "loadfail", "clickfail"}}
    \cup {[probe |-> "visible", label |-> "Apply", first |-> f, cont |-> "present", second |-> s, close |-> "-"] :
            f \in {"timeout", "loadfail", "clickfail"}, s \in {"timeout", "loadfail"}}
    \cup {[probe |-> "visible", label |-> "Apply", first |-> f, cont |-> "present", second |-> "popup", close |-> c] :
            f \in {"timeout", "loadfail", "clickfail"}, c \in {"ok", "raise"}}

\* "Easy Apply" in apply_text (line 144), on the labels the model uses
EasyApply(text) == text = "Easy Apply"

OnEasyApplyMutant == [res |-> "keep", apply_url |-> ""]
\* lines 145-146: the posting is logged and skipped with `continue`
OnEasyApply == [res |-> "skip", apply_url |-> ""]

OnNewPageMutant(a) == [res |-> "keep", apply_url |-> ""]
\* lines 161-165: new_page is the tab that arrived and loaded; its URL is read,
\* then the tab is given a moment and closed
OnNewPage(a) ==
    IF a.close = "ok" THEN [res |-> "keep", apply_url |-> PopupUrl]
    ELSE [res |-> "error", apply_url |-> PopupUrl]

ResolveApplyMutant(a) == [res |-> "keep", apply_url |-> ""]
\* lines 137-169. res: "keep" (go on to build the record with apply_url),
\* "skip" (continue at line 146), "error" (the except block at 166).
\* continue_button.is_visible() at line 156 is not awaited: the coroutine object
\* is truthy, so the click at 157 is always attempted and raises when there is
\* no Continue control.
ResolveApply(a) ==
    IF a.probe = "raise" THEN [res |-> "error", apply_url |-> ""]
    ELSE IF a.probe = "hidden" THEN [res |-> "keep", apply_url |-> ""]
    ELSE IF a.label = "raise" THEN [res |-> "error", apply_url |-> ""]
    ELSE IF EasyApply(a.label) THEN OnEasyApply
    ELSE IF a.first = "popup" THEN OnNewPage(a)
         ELSE IF a.cont = "absent" THEN [res |-> "error", apply_url |-> ""]
              ELSE IF a.second # "popup" THEN [res |-> "error", apply_url |-> ""]
                   ELSE OnNewPage(a)

\* -------------------------------------------------- collect_job_ids (77-89)

\* The result cards rendered on a page, in DOM order: "id" for a card that
\* carries a data-occludable-job-id, "none" for one whose attribute is missing
\* or empty. job_ids is only ever read front to back, so the model keeps its
\* length and draws each identifier when the iteration over it starts.
CardLists == UNION {[1..n -> {"id", "none"}] : n \in 0..MaxPageLen}

\* `if job_id: job_ids.append(job_id)`: the number of identifiers returned
collect_job_ids(cards) == Len(SelectSeq(cards, LAMBDA c : c # "none"))

\* ------------------------------------------ save_job_details, one iteration

\* What the browser does while one identifier is processed. click: scrolling to
\* and clicking the card (100-108); failed: the detail fields whose locator
\* raises; apply: see ApplyEnvs; reload: page.reload() at 168; pace: the wait at 201.
StepEnvsWith(faulty) ==
    {[click |-> "fail", failed |-> {}, apply |-> a, reload |-> "-", pace |-> "-"] :
        a \in {x \in ApplyEnvs : x.probe = "hidden"}}
    \cup {[click |-> "ok", failed |-> {}, apply |-> a, reload |-> "-", pace |-> "-"] :
        a \in {x \in ApplyEnvs : ResolveApply(x).res = "skip"}}
    \cup {[click |-> "ok", failed |-> {}, apply |-> a, reload |-> r, pace |-> "-"] :
        a \in {x \in ApplyEnvs : ResolveApply(x).res = "error"}, r \in {"ok", "raise"}}
    \cup {[click |-> "ok", failed |-> f, apply |-> a, reload |-> "-", pace |-> w] :
        f \in SUBSET faulty,
        a \in {x \in ApplyEnvs : ResolveApply(x).res = "keep"}, w \in {"ok", "raise"}}

\* the crawl draws the failing fields from FaultyFields
StepEnvs == StepEnvsWith(FaultyFields)

\* A posting in easy shows a visible apply control labelled "Easy Apply"
\* whenever its detail pane is probed; no other posting shows that label.
StepEnvsOf(id, ez) ==
    {e \in StepEnvs :
        /\ e.apply.label = "Easy Apply" => id \in ez
        /\ (id \in ez /\ e.click = "ok") =>
              (e.apply.probe = "raise" \/ e.apply.label \in {"Easy Apply", "raise"})}

OnCardClickErrorMutant(js) == [jobs |-> js, ctl |-> "raise", out |-> "click_failed"]
\* lines 107-108: `except: continue` around the scroll and click of the card
OnCardClickError(js) == [jobs |-> js, ctl |-> "continue", out |-> "click_failed"]

OnApplyErrorMutant(js, id, e) ==
    [jobs |-> DictSet(js, id, NewJob(id, e.failed, "")), ctl |-> "continue", out |-> "saved"]
\* lines 166-169: the exception is printed, the page reloaded, the identifier
\* left with `continue`; an exception of reload() leaves save_job_details
OnApplyError(js, id, e) ==
    [jobs |-> js,
     ctl |-> IF e.reload = "raise" THEN "raise" ELSE "continue",
     out |-> "apply_error"]

\* The body of the for loop of save_job_details (lines 93-204) for one job_id.
\* ctl: "continue", "break" (line 204) or "raise" (an exception leaves
\* save_job_details); out names the path taken.
SaveJobDetailsIter(js, id, e) ==
    IF InJobs(js, id)
    THEN [jobs |-> js, ctl |-> "continue", out |-> "skipped"]
    ELSE IF e.click = "fail" THEN OnCardClickError(js)
    ELSE LET r == ResolveApply(e.apply) IN
         IF r.res = "skip"
         THEN [jobs |-> js, ctl |-> "continue", out |-> "easy_apply"]
         ELSE IF r.res = "error" THEN OnApplyError(js, id, e)
         ELSE LET js2 == DictSet(js, id, NewJob(id, e.failed, r.apply_url))
              IN [jobs |-> js2,
                  ctl |-> IF e.pace = "raise" THEN "raise"
                          ELSE IF Len(js2) >= NUMBER_OF_JOBS_TO_BE_SCRAPPED THEN "break"
                          ELSE "continue",
                  out |-> "saved"]

\* The calls one iteration makes, in program order. handler is 0 for a call
\* that returns, and otherwise the line of the except clause that takes its
\* exception (277 when it leaves save_job_details for the try of main). on is
\* the object called: "page" (the crawl page), "context", "stdout", "jobs", or
\* the tab "1" or "2" that arrived in the first or second expect_page block.
Ev(on, op, arg, handler) == [on |-> on, op |-> op, arg |-> arg, handler |-> handler]

\* the five text and list fields read from the detail pane
Fields == {"title", "company", "job_info", "job_tags", "job_description"}

\* the except clause behind each field's locator (113, 119, 125, 133, 174)
FieldHandler(f) ==
    CASE f = "title" -> 113 [] f = "company" -> 119 [] f = "job_info" -> 125
      [] f = "job_tags" -> 133 [] f = "job_description" -> 174

ExtractEv(f, failed) == Ev("page", "extract", f, IF f \in failed THEN FieldHandler(f) ELSE 0)

\* lines 161-165 on the tab that arrived in block k
TabTail(k, a) ==
    <<Ev(k, "url", k, 0), Ev("stdout", "log", "apply_url", 0),
      Ev(k, "close", k, IF a.close = "ok" THEN 0 ELSE 166)>>

SecondBlockMutant(a) ==
    <<Ev("context", "expect_page", "2", 0), Ev("context", "await_tab", "2", 166)>>
\* lines 154-159: the second expect_page block, entered from the except of 153
SecondBlock(a) ==
    <<Ev("context", "expect_page", "2", 0)>> \o
    (IF a.cont = "absent" THEN <<Ev("page", "click", "Continue", 166)>>
     ELSE <<Ev("page", "click", "Continue", 0)>> \o
          (IF a.second = "timeout" THEN <<Ev("context", "await_tab", "2", 166)>>
           ELSE IF a.second = "loadfail"
           THEN <<Ev("context", "await_tab", "2", 0), Ev("2", "load", "2", 166)>>
           ELSE <<Ev("context", "await_tab", "2", 0), Ev("2", "load", "2", 0)>> \o TabTail("2", a)))

ApplyEventsMutant(a) ==
    <<Ev("page", "is_visible", "apply", 0), Ev("page", "inner_text", "apply", 0),
      Ev("stdout", "log", "apply_text", 0), Ev("context", "expect_page", "1", 0),
      Ev("page", "click", "apply", 0)>> \o
    (IF a.cont = "present" THEN <<Ev("page", "click", "Continue", 0)>> ELSE << >>) \o
    <<Ev("context", "await_tab", "1", 0), Ev("1", "load", "1", 0)>> \o TabTail("1", a)
\* lines 139-165: the calls of the apply logic up to the point where it is left
ApplyEvents(a) ==
    IF a.probe = "raise" THEN <<Ev("page", "is_visible", "apply", 166)>>
    ELSE IF a.probe = "hidden" THEN <<Ev("page", "is_visible", "apply", 0)>>
    ELSE IF a.label = "raise"
    THEN <<Ev("page", "is_visible", "apply", 0), Ev("page", "inner_text", "apply", 166)>>
    ELSE <<Ev("page", "is_visible", "apply", 0), Ev("page", "inner_text", "apply", 0),
           Ev("stdout", "log", "apply_text", 0)>> \o
         (IF EasyApply(a.label) THEN <<Ev("stdout", "log", "easy_apply", 0)>>
          ELSE <<Ev("context", "expect_page", "1", 0)>> \o
               (IF a.first = "clickfail"
                THEN <<Ev("page", "click", "apply", 153)>> \o SecondBlock(a)
                ELSE IF a.first = "timeout"
                THEN <<Ev("page", "click", "apply", 0), Ev("context", "await_tab", "1", 153)>> \o SecondBlock(a)
                ELSE IF a.first = "loadfail"
                THEN <<Ev("page", "click", "apply", 0), Ev("context", "await_tab", "1", 0),
                       Ev("1", "load", "1", 153)>> \o SecondBlock(a)
                ELSE <<Ev("page", "click", "apply", 0), Ev("context", "await_tab", "1", 0),
                       Ev("1", "load", "1", 0)>> \o TabTail("1", a)))

\* lines 93-204: the calls of one iteration of the for loop
IterEvents(js, id, e) ==
    IF InJobs(js, id) THEN << >>
    ELSE IF e.click = "fail" THEN <<Ev("page", "click", "card", 107)>>
    ELSE LET r == ResolveApply(e.apply)
             head == <<Ev("page", "click", "card", 0), ExtractEv("title", e.failed),
                       ExtractEv("company", e.failed), ExtractEv("job_info", e.failed),
                       ExtractEv("job_tags", e.failed)>> \o ApplyEvents(e.apply)
         IN IF r.res = "skip" THEN head
            ELSE IF r.res = "error"
            THEN head \o <<Ev("stdout", "log", "apply_error", 0),
                           Ev("page", "reload", "page", IF e.reload = "raise" THEN 277 ELSE 0)>>
            ELSE head \o <<ExtractEv("job_description", e.failed), Ev("stdout", "log", "fields", 0),
                           Ev("jobs", "store", id, 0), Ev("stdout", "log", "saved", 0),
                           Ev("page", "wait", "page", IF e.pace = "raise" THEN 277 ELSE 0)>>

\* ------------------------------------------------ save_jobs_to_csv (207-244)

RECURSIVE Join(_, _)
\* sep.join(parts)
Join(sep, parts) ==
    IF Len(parts) = 0 THEN ""
    ELSE IF Len(parts) = 1 THEN parts[1]
    ELSE parts[1] \o sep \o Join(sep, Tail(parts))

\* the dict handed to writer.writerow (lines 233-242)
CsvRow(job) ==
    [job_id |-> job.job_id,
     title |-> job.title,
     company |-> job.company,
     job_info |-> job.job_info,
     job_tags |-> Join(", ", job.job_tags),
     job_description |-> job.job_description,
     linkedin_url |-> job.linkedin_url,
     apply_url |-> job.apply_url]

CsvRows(js) == [i \in 1..Len(js) |-> CsvRow(js[i])]

\* The file system during the flush: creating the directory or opening the
\* file fails, writing fails after k rows, or everything is written.
FlushEnvs(js) ==
    {[kind |-> "open_fail", k |-> 0], [kind |-> "ok", k |-> Len(js)]}
    \cup {[kind |-> "row_fail", k |-> k] : k \in 0..(Len(js) - 1)}

\* open(file_path, "w") truncates; rows are written in the order of jobs.values().
save_jobs_to_csv(js, w, old) ==
    IF w.kind = "open_fail" THEN [raised |-> TRUE, csv |-> old]
    ELSE IF w.kind = "row_fail"
    THEN [raised |-> TRUE, csv |-> [exists |-> TRUE, rows |-> SubSeq(CsvRows(js), 1, w.k)]]
    ELSE [raised |-> FALSE, csv |-> [exists |-> TRUE, rows |-> CsvRows(js)]]

\* ------------------------------------------------------------------ main

NoToken == [state |-> "none", writes |-> 0]
StoredToken == [state |-> "stored", writes |-> 0]

\* a part of the repository that does not run in the specification at hand
Idle == [phase |-> "idle"]

\* lines 248-258 and 267-268: a stored session is a hint, it may have expired.
Init ==
    /\ pane = Idle
    /\ db = Idle
    /\ match = Idle
    /\ pc = "start"
    /\ jobs = << >>
    /\ job_ids_left = 0
    /\ page_num = 1
    /\ token \in {NoToken, StoredToken}
    /\ session \in (IF token = StoredToken THEN {"anon", "auth"} ELSE {"anon"})
    /\ creds = "unused"
    /\ easy \in SUBSET JobIds
    /\ lastNav = [obs |-> "none", ret |-> FALSE, raised |-> FALSE, kind |-> "none"]
    /\ last = "none"
    /\ ending = "none"
    /\ flushes = 0
    /\ csv = [exists |-> FALSE, rows |-> << >>]

\* line 260-261
InitialNavigate ==
    /\ pc = "start"
    /\ \E n \in NavEnvsOf(session) :
          LET nav == NavRecord(n, "initial") IN
          /\ lastNav' = nav
          /\ pc' = IF nav.raised THEN "crashed" ELSE IF nav.ret THEN "while" ELSE "login"
    /\ UNCHANGED <<jobs, job_ids_left, page_num, session, token, creds, easy, last,
                   ending, flushes, csv>>
    /\ UNCHANGED offline

\* line 262: an exception of login() is outside the try of line 269 and leaves main()
Login ==
    /\ pc = "login"
    /\ \E l \in LoginEnvs :
          LET r == login(l, session, token) IN
          /\ creds' = l.creds
          /\ session' = r.session
          /\ token' = r.token
          /\ pc' = IF r.raised THEN "crashed" ELSE "renav"
    /\ UNCHANGED <<jobs, job_ids_left, page_num, easy, lastNav, last, ending, flushes, csv>>
    /\ UNCHANGED offline

\* line 264: the value returned is dropped
Renavigate ==
    /\ pc = "renav"
    /\ \E n \in NavEnvsOf(session) :
          LET nav == NavRecord(n, "retry") IN
          /\ lastNav' = nav
          /\ pc' = IF nav.raised THEN "crashed" ELSE "while"
    /\ UNCHANGED <<jobs, job_ids_left, page_num, session, token, creds, easy, last,
                   ending, flushes, csv>>
    /\ UNCHANGED offline

\* line 270, and line 276 when the condition is false
LoopTest ==
    /\ pc = "while"
    /\ IF Len(jobs) < NUMBER_OF_JOBS_TO_BE_SCRAPPED
       THEN pc' = "collect" /\ ending' = ending
       ELSE pc' = "finally" /\ ending' = "target"
    /\ UNCHANGED <<jobs, job_ids_left, page_num, session, token, creds, easy, lastNav,
                   last, flushes, csv>>
    /\ UNCHANGED offline

\* line 271: count() or get_attribute() raises into the except of line 277, or
\* the identifiers of the rendered cards are returned; line 272 with no
\* identifier falls through to line 273.
CollectJobIds ==
    /\ pc = "collect"
    /\ \/ /\ pc' = "finally"
          /\ ending' = "exception"
          /\ job_ids_left' = 0
          /\ last' = last
       \/ \E cards \in CardLists :
             /\ job_ids_left' = collect_job_ids(cards)
             /\ pc' = IF job_ids_left' = 0 THEN "advance" ELSE "details"
             /\ ending' = ending
             /\ last' = "none"
    /\ UNCHANGED <<jobs, page_num, session, token, creds, easy, lastNav, flushes, csv>>
    /\ UNCHANGED offline

\* line 272: one iteration of the for loop of save_job_details
SaveJobDetailsStep ==
    /\ pc = "details"
    /\ job_ids_left > 0
    /\ \E job_id \in JobIds : \E e \in StepEnvsOf(job_id, easy) :
          LET r == SaveJobDetailsIter(jobs, job_id, e) IN
          /\ jobs' = r.jobs
          /\ last' = r.out
          /\ IF r.ctl = "raise"
             THEN /\ pc' = "finally"
                  /\ ending' = "exception"
                  /\ job_ids_left' = 0
             ELSE IF r.ctl = "break" \/ job_ids_left = 1
             THEN /\ pc' = "advance"
                  /\ ending' = ending
                  /\ job_ids_left' = 0
             ELSE /\ pc' = "details"
                  /\ ending' = ending
                  /\ job_ids_left' = job_ids_left - 1
    /\ UNCHANGED <<page_num, session, token, creds, easy, lastNav, flushes, csv>>
    /\ UNCHANGED offline

\* lines 273-274: the value returned by the navigation is dropped
NextPage ==
    /\ pc = "advance"
    /\ page_num' = IF page_num < MaxPages THEN page_num + 1 ELSE page_num
    /\ \E n \in NavEnvsOf(session) :
          LET nav == NavRecord(n, "page") IN
          /\ lastNav' = nav
          /\ IF nav.raised
             THEN pc' = "finally" /\ ending' = "exception"
             ELSE pc' = "while" /\ ending' = ending
    /\ UNCHANGED <<jobs, job_ids_left, session, token, creds, easy, last, flushes, csv>>
    /\ UNCHANGED offline

\* lines 279-281: an exception of the wait or of browser.close() leaves main()
Teardown ==
    /\ pc = "finally"
    /\ \E t \in {"ok", "wait_raises", "close_raises"} :
          pc' = IF t = "ok" THEN "flush" ELSE "crashed"
    /\ UNCHANGED <<jobs, job_ids_left, page_num, session, token, creds, easy, lastNav,
                   last, ending, flushes, csv>>
    /\ UNCHANGED offline

\* line 284
Flush ==
    /\ pc = "flush"
    /\ \E w \in FlushEnvs(jobs) :
          LET r == save_jobs_to_csv(jobs, w, csv) IN
          /\ csv' = r.csv
          /\ pc' = IF r.raised THEN "crashed" ELSE "done"
    /\ flushes' = flushes + 1
    /\ UNCHANGED <<jobs, job_ids_left, page_num, session, token, creds, easy, lastNav,
                   last, ending>>
    /\ UNCHANGED offline

Next ==
    \/ InitialNavigate
    \/ Login
    \/ Renavigate
    \/ LoopTest
    \/ CollectJobIds
    \/ SaveJobDetailsStep
    \/ NextPage
    \/ Teardown
    \/ Flush

Spec == Init /\ [][Next]_vars

\* The coroutine is the only task of the event loop: it keeps being run.
LiveSpec == Spec /\ WF_vars(Next)

\* ------------------------------------- save_job_details, one iteration alone

\* the variables of the crawl
crawl == <<pc, jobs, job_ids_left, page_num, session, token, creds, easy, lastNav,
           last, ending, flushes, csv>>

\* no crawl is running
CrawlIdle ==
    /\ pc = "idle"
    /\ jobs = << >>
    /\ job_ids_left = 0
    /\ page_num = 1
    /\ session = "anon"
    /\ token = NoToken
    /\ creds = "unused"
    /\ easy = {}
    /\ lastNav = [obs |-> "none", ret |-> FALSE, raised |-> FALSE, kind |-> "none"]
    /\ last = "none"
    /\ ending = "none"
    /\ flushes = 0
    /\ csv = [exists |-> FALSE, rows |-> << >>]

\* the mapping the iteration starts from: empty, or holding one record
PaneJobs == {<< >>} \cup {<<NewJob(i, {}, "")>> : i \in JobIds}

\* One identifier, any mapping and anything the browser can do during the
\* iteration, every subset of the five fields failing included.
PaneInit ==
    /\ CrawlIdle
    /\ db = Idle
    /\ match = Idle
    /\ pane \in {[phase |-> "in", jobs |-> js, job_id |-> id, e |-> e] :
                    js \in PaneJobs, id \in JobIds, e \in StepEnvsWith(Fields)}

\* lines 93-204 for pane.job_id: the result and the calls made
SaveJobDetailsOnce ==
    /\ pane.phase = "in"
    /\ pane' = [phase |-> "out", jobs |-> pane.jobs, job_id |-> pane.job_id, e |-> pane.e,
                r |-> SaveJobDetailsIter(pane.jobs, pane.job_id, pane.e),
                ev |-> IterEvents(pane.jobs, pane.job_id, pane.e)]
    /\ UNCHANGED <<crawl, db, match>>

PaneNext == SaveJobDetailsOnce

PaneSpec == PaneInit /\ [][PaneNext]_vars

\* --------------------- save_job_details, one identifier enumerated repeatedly

\* the number of clicks on the identifier's card in a sequence of calls
CardClicks(ev) == Cardinality({i \in 1..Len(ev) : ev[i].op = "click" /\ ev[i].arg = "card"})

\* One identifier that the site keeps returning, page after page; jobs is the
\* only thing save_job_details remembers from one enumeration to the next.
RevisitInit ==
    /\ CrawlIdle
    /\ db = Idle
    /\ match = Idle
    /\ pane \in {[phase |-> "visit", jobs |-> js, job_id |-> id, clicks |-> 0, outs |-> << >>] :
                    js \in PaneJobs, id \in JobIds}

\* lines 93-204 for pane.job_id, once more; an exception or the break at the
\* target ends the loop, so that no later enumeration follows
Revisit ==
    /\ pane.phase = "visit"
    /\ Len(pane.outs) < MaxVisits
    /\ \E e \in StepEnvsWith(FaultyFields) :
          LET r == SaveJobDetailsIter(pane.jobs, pane.job_id, e)
              ev == IterEvents(pane.jobs, pane.job_id, e)
          IN pane' = [phase |-> IF r.ctl = "continue" THEN "visit" ELSE "left",
                      jobs |-> r.jobs,
                      job_id |-> pane.job_id,
                      clicks |-> pane.clicks + CardClicks(ev),
                      outs |-> Append(pane.outs, r.out)]
    /\ UNCHANGED <<crawl, db, match>>

RevisitNext == Revisit

RevisitSpec == RevisitInit /\ [][RevisitNext]_vars

\* ------------------------------------- data_loader/load_jobs.py, main (34-64)

\* pandas.read_csv with its default na_values: an empty cell and the texts
\* "N/A" and "NaN" are read as the missing value
NaN == "NaN"
ReadCell(s) == IF s \in {"", "N/A", "NaN"} THEN NaN ELSE s

\* s.split('|'); no text of the model contains the character '|', so the
\* result is the one-element list of the whole text
SplitPipe(s) == <<s>>

\* lines 49-57: the values of the insert statement built from one row
RowValues(row) ==
    [job_id |-> row.job_id,
     title |-> ReadCell(row.title),
     company |-> ReadCell(row.company),
     job_info |-> ReadCell(row.job_info),
     job_tags |-> IF ReadCell(row.job_tags) # NaN THEN SplitPipe(row.job_tags) ELSE << >>,
     job_description |-> ReadCell(row.job_description),
     linkedin_url |-> row.linkedin_url,
     apply_url |-> ReadCell(row.apply_url)]

OnConflictDoNothingMutant(table, v) == {r \in table : r.job_id # v.job_id} \cup {v}
\* line 58: INSERT ... ON CONFLICT (job_id) DO NOTHING on the table job, whose
\* primary key is job_id (line 25)
OnConflictDoNothing(table, v) ==
    IF \E r \in table : r.job_id = v.job_id THEN table ELSE table \cup {v}

RECURSIVE InsertAll(_, _)
\* lines 48-60: one statement per row of the file, in file order
InsertAll(table, rows) ==
    IF rows = << >> THEN table
    ELSE InsertAll(OnConflictDoNothing(table, RowValues(Head(rows))), Tail(rows))

\* lines 46-63. The statements run in one transaction committed at line 62: an
\* exception of read_csv, execute or commit leaves the table as it was.
load_jobs(table, file, fault) ==
    IF fault THEN [raised |-> TRUE, table |-> table]
    ELSE [raised |-> FALSE, table |-> InsertAll(table, file)]

\* records as save_job_details stores them: all fields read, title and tags
\* failed, or all fields read from a pane that shows two insight spans
FlushedJobs ==
    {NewJob(id, f, "") : id \in JobIds, f \in {{}, {"title", "job_tags"}}}
    \cup {[NewJob(id, {}, "") EXCEPT !.job_tags = <<"Full-time", "Remote">>] : id \in JobIds}

\* the mappings flushed to a file of at most MaxFileRows rows
FlushedMaps == UNION {[1..n -> FlushedJobs] : n \in 0..MaxFileRows}

\* rows as save_jobs_to_csv writes them
FileRows == {CsvRow(j) : j \in FlushedJobs}

Files == {CsvRows(js) : js \in FlushedMaps}

\* the table job before the loader runs: at most one row per job_id
Tables ==
    {t \in SUBSET {RowValues(r) : r \in FileRows} :
        \A r1 \in t : \A r2 \in t : r1.job_id = r2.job_id => r1 = r2}

LoadInit ==
    /\ CrawlIdle
    /\ pane = Idle
    /\ match = Idle
    /\ db \in {[phase |-> "open", jobs |-> js, file |-> CsvRows(js), start |-> t, table |-> t,
                 loads |-> 0, once |-> t, outcome |-> "none"] : js \in FlushedMaps, t \in Tables}

\* one run of load_jobs.py on db.file
LoadJobs ==
    /\ db.loads < MaxLoads
    /\ \E fault \in BOOLEAN :
          LET r == load_jobs(db.table, db.file, fault) IN
          db' = [db EXCEPT !.table = r.table,
                           !.loads = IF r.raised THEN @ ELSE @ + 1,
                           !.once = IF ~r.raised /\ db.loads = 0 THEN r.table ELSE @,
                           !.outcome = IF r.raised THEN "raised" ELSE "loaded"]
    /\ UNCHANGED <<crawl, pane, match>>

LoadNext == LoadJobs

LoadSpec == LoadInit /\ [][LoadNext]_vars

\* ------------------------- ai_agent/job_matcher.py, analyze_job_match (29-129)

Min(a, b) == IF a < b THEN a ELSE b
Max(a, b) == IF a > b THEN a ELSE b

JobMatchResultMutant(score, reasoning) == [score |-> score, reasoning |-> reasoning]
\* lines 12-20: the dataclass; __post_init__ clamps the score into 0..10
JobMatchResult(score, reasoning) ==
    [score |-> Max(0, Min(10, score)), reasoning |-> reasoning]

\* the value under "score" in the replied object: an integer, a text that is
\* not a number, null, or no such key
ScoreValues ==
    {[t |-> "int", n |-> k] : k \in (0 - ScoreSlack)..(10 + ScoreSlack)}
    \cup {[t |-> x, n |-> 0] : x \in {"str", "null", "absent"}}

\* What chat.completions.create does: it raises, or it returns a message whose
\* content is None or a text. A text is an optional opening fence (three
\* backticks, "fence", or three backticks and json, "fence_json"), a body that
\* is or is not a JSON object, and an optional closing fence.
LlmReplies ==
    {[kind |-> k, open |-> "", close |-> "", valid |-> FALSE,
      score |-> [t |-> "absent", n |-> 0], reasoning |-> "absent"] : k \in {"raise", "none"}}
    \cup {[kind |-> "text", open |-> o, close |-> c, valid |-> v, score |-> sc, reasoning |-> r] :
            o \in {"", "fence", "fence_json"}, c \in {"", "fence"}, v \in BOOLEAN,
            sc \in ScoreValues, r \in {"text", "absent"}}

\* lines 111-114: content[7:-3] or content[3:-3] when the text starts with a
\* fence, the text itself otherwise. The body is whole afterwards when exactly
\* the fences were cut; without a closing fence the slice cuts the last three
\* characters of the body, and an unopened closing fence stays in the text.
FenceStripped(reply) ==
    IF reply.open # "" THEN reply.close = "fence" ELSE reply.close = ""

\* lines 108-121 up to the construction of the result: TRUE when one of
\* .strip() on None, json.loads, result_data["score"], int() or
\* result_data["reasoning"] raises
ParseRaises(reply) ==
    \/ reply.kind = "none"
    \/ ~FenceStripped(reply)
    \/ ~reply.valid
    \/ reply.score.t # "int"
    \/ reply.reasoning = "absent"

\* the rows handed over as job_data: job_description is a text or None
JobData == {[job_description |-> d] : d \in {"text", "None"}}

\* lines 42-129. The job text is sliced at line 47, before the try of line 96:
\* a None job_description raises there and no request is made.
analyze_job_match(job_data, reply) ==
    IF job_data.job_description = "None"
    THEN [raised |-> TRUE, called |-> FALSE, error |-> FALSE, result |-> JobMatchResult(0, "")]
    ELSE IF reply.kind = "raise" \/ ParseRaises(reply)
    THEN [raised |-> FALSE, called |-> TRUE, error |-> TRUE,
          result |-> JobMatchResult(0, "Error occurred during analysis")]
    ELSE [raised |-> FALSE, called |-> TRUE, error |-> FALSE,
          result |-> JobMatchResult(reply.score.n, reply.reasoning)]

MatchInit ==
    /\ CrawlIdle
    /\ pane = Idle
    /\ db = Idle
    /\ match \in {[phase |-> "call", job_data |-> j, reply |-> r] :
                     j \in JobData, r \in LlmReplies}

\* one call of analyze_job_match
AnalyzeJobMatch ==
    /\ match.phase = "call"
    /\ match' = [phase |-> "done", job_data |-> match.job_data, reply |-> match.reply,
                 r |-> analyze_job_match(match.job_data, match.reply)]
    /\ UNCHANGED <<crawl, pane, db>>

MatchNext == AnalyzeJobMatch

MatchSpec == MatchInit /\ [][MatchNext]_vars

\* ---------------- ai_agent/scoring_workflow.py, ScoringWorkflow.score_jobs

\* the columns the ORM class Job maps (data_loader/load_jobs.py, lines 25-32),
\* which scoring_workflow.py imports at line 11
JobColumns ==
    {"job_id", "title", "company", "job_info", "job_tags", "job_description",
     "linkedin_url", "apply_url"}

\* A row of the table job as the workflow sees it: whether a score is stored
\* (match_score is not NULL), the score, whether scored_at is set, and whether
\* job_description is a text or NULL.
ScoreRows ==
    {[scored |-> FALSE, score |-> 0, stamped |-> FALSE, job_description |-> d] :
        d \in {"text", "None"}}
    \cup {[scored |-> TRUE, score |-> s, stamped |-> TRUE, job_description |-> "text"] :
            s \in {0, 7}}

\* What happens while one job is scored: the reply of the language model and
\* the outcome of session.commit().
ScoreEnvs ==
    {[reply |-> r, commit |-> c] :
        r \in {x \in LlmReplies :
                 /\ x.open = "" /\ x.close = ""
                 /\ x.kind \in {"raise", "text"}
                 /\ x.kind = "text" =>
                       /\ x.valid /\ x.reasoning = "text"
                       /\ x.score \in {[t |-> "int", n |-> 0], [t |-> "int", n |-> 7]}},
        c \in {"ok", "raise"}}

\* lines 44-49 and 51-56: Job.match_score.is_(None) is evaluated on the class;
\* a class without that column raises AttributeError
SelectJobs(table, mode) ==
    LET all == [i \in 1..NumIds |-> i] IN
    IF mode = "rescore" THEN [raised |-> FALSE, jobs |-> all]
    ELSE IF "match_score" \notin JobColumns THEN [raised |-> TRUE, jobs |-> << >>]
    ELSE [raised |-> FALSE, jobs |-> SelectSeq(all, LAMBDA i : ~table[i].scored)]

\* lines 58-63: the three assignments reach the table at the commit only for
\* attributes that are mapped columns; on any other name they set a plain
\* attribute of the Python object
update_job_score(row, result) ==
    [row EXCEPT !.scored = IF "match_score" \in JobColumns THEN TRUE ELSE @,
                !.score = IF "match_score" \in JobColumns THEN result.score ELSE @,
                !.stamped = IF "scored_at" \in JobColumns THEN TRUE ELSE @]

RECURSIVE ScoreLoop(_, _, _, _)
\* lines 112-144 for the jobs selected, in order. acc: the table, the two
\* counters, and the jobs whose analysis failed and came back as a result.
ScoreLoop(sel, k, envs, acc) ==
    IF k > Len(sel) THEN acc
    ELSE LET id == sel[k]
             a == analyze_job_match([job_description |-> acc.table[id].job_description],
                                    envs[id].reply)
         IN IF a.raised \/ envs[id].commit = "raise"
            THEN ScoreLoop(sel, k + 1, envs, [acc EXCEPT !.errors = @ + 1])
            ELSE ScoreLoop(sel, k + 1, envs,
                    [acc EXCEPT !.table[id] = update_job_score(@, a.result),
                                !.processed = @ + 1,
                                !.failed = IF a.error THEN @ \cup {id} ELSE @])

\* lines 65-154, the profile being present
score_jobs(table, mode, envs) ==
    LET s == SelectJobs(table, mode)
        start == [table |-> table, processed |-> 0, errors |-> 0, failed |-> {}]
        end == IF s.raised THEN start ELSE ScoreLoop(s.jobs, 1, envs, start)
    IN [raised |-> s.raised, mode |-> mode, selected |-> s.jobs, table |-> end.table,
        processed |-> end.processed, errors |-> end.errors, failed |-> end.failed]

NoRun ==
    [raised |-> FALSE, mode |-> "none", selected |-> << >>, processed |-> 0,
     errors |-> 0, failed |-> {}]

ScoreInit ==
    /\ CrawlIdle
    /\ pane = Idle
    /\ db \in {[phase |-> "scoring", table |-> t] : t \in [JobIds -> ScoreRows]}
    /\ match = [phase |-> "runs", runs |-> 0, run |-> NoRun, earlier |-> {}]

\* one run of score_jobs: score-new (rescore = False) or rescore-all
ScoreJobs ==
    /\ match.phase = "runs"
    /\ match.runs < MaxRuns
    /\ ~match.run.raised
    /\ \E mode \in {"unscored", "rescore"} : \E envs \in [JobIds -> ScoreEnvs] :
          LET r == score_jobs(db.table, mode, envs) IN
          /\ db' = [db EXCEPT !.table = r.table]
          /\ match' = [phase |-> "runs", runs |-> match.runs + 1,
                       run |-> [raised |-> r.raised, mode |-> r.mode, selected |-> r.selected,
                                processed |-> r.processed, errors |-> r.errors,
                                failed |-> r.failed],
                       earlier |-> match.earlier \cup match.run.failed]
    /\ UNCHANGED <<crawl, pane>>

ScoreNext == ScoreJobs

ScoreSpec == ScoreInit /\ [][ScoreNext]_vars

\* ================================================================ claims

JobIdsOf(js) == {js[i].job_id : i \in 1..Len(js)}
Ended == pc \in {"done", "crashed"}

\* C1: the jobs dict holds at most one record per identifier, and a record,
\* once inserted, is never overwritten, modified or removed: every step keeps
\* each existing entry as it is, in its place (first-seen wins, the dict only grows).
C1_FirstSeenWins ==
    /\ [](\A i, j \in 1..Len(jobs) : jobs[i].job_id = jobs[j].job_id => i = j)
    /\ [][/\ Len(jobs') >= Len(jobs)
          /\ \A i \in 1..Len(jobs) : jobs'[i] = jobs[i]]_vars

\* An identifier already in jobs was enumerated again on a later page and skipped.
C1_Witness == last = "skipped" /\ page_num >= 2 /\ Len(jobs) >= 1

\* C2: a posting whose visible apply control reads Easy Apply is never in the
\* jobs dict and never in the interchange file.
C2_EasyApplyExcluded ==
    /\ JobIdsOf(jobs) \cap easy = {}
    /\ \A i \in 1..Len(csv.rows) : csv.rows[i].job_id \notin easy

\* An Easy Apply posting was processed and skipped, and the flushed file holds
\* the other posting.
C2_Witness ==
    /\ pc = "done"
    /\ last = "easy_apply"
    /\ Len(csv.rows) >= 1

\* C3: once len(jobs) reaches NUMBER_OF_JOBS_TO_BE_SCRAPPED no further
\* identifier is enumerated or processed, the size never exceeds the target by
\* more than one record, and a run whose loop ended on the target has flushed
\* by the time it ends.
C3_TargetHaltsAndFlushes ==
    /\ Len(jobs) <= NUMBER_OF_JOBS_TO_BE_SCRAPPED + 1
    /\ Len(jobs) >= NUMBER_OF_JOBS_TO_BE_SCRAPPED => pc \notin {"collect", "details"}
    /\ (ending = "target" /\ Ended) => flushes = 1

\* C4: a run whose crawl loop ended on an exception with 0 < N < target
\* records has called the flush by the time it ends, and a flush that
\* completed left exactly those N records in the file, one row each.
C4_FlushAfterLoopException ==
    (/\ ending = "exception"
     /\ Len(jobs) > 0
     /\ Len(jobs) < NUMBER_OF_JOBS_TO_BE_SCRAPPED
     /\ Ended)
    => /\ flushes = 1
       /\ pc = "done" => (csv.exists /\ csv.rows = CsvRows(jobs))

\* C5: the flush is called exactly once per run, after the crawl loop has
\* ended, on every ending path of the loop: never before the loop has ended,
\* never twice, and never skipped by what happens between loop and flush.
C5_FlushExactlyOnce ==
    /\ flushes <= 1
    /\ flushes = 1 => ending # "none"
    /\ (ending # "none" /\ Ended) => flushes = 1

\* C6: a run that ends because login was required and failed (credentials
\* missing or rejected) has still called the flush.
C6_FatalLoginStillFlushes ==
    (pc = "crashed" /\ ending = "none" /\ creds \in {"absent", "rejected"})
    => flushes = 1

\* C7: if from some point on enumeration returns no identifier at all, the
\* crawl loop eventually terminates.
C7_ExhaustionTerminates ==
    (<>[](pc # "details")) => <>(pc \in {"finally", "flush", "done", "crashed"})

\* C8: every navigation that is not itself the retry and whose outcome is
\* SignInRequired (the function returned False) is followed by the login path
\* and its one re-navigation, at the initial navigation and at every page
\* navigation of the crawl loop.
C8_SignInRequiredTriggersLogin ==
    (lastNav.kind \in {"initial", "page"} /\ ~lastNav.ret)
    => pc \in {"login", "renav", "crashed"}

\* C9: once login has found the credentials absent or rejected, the run is
\* aborted: no enumeration or detail extraction takes place.
C9_LoginFailureAborts ==
    creds \in {"absent", "rejected"} => pc \notin {"collect", "details", "advance"}

\* C10: no exception leaves navigate_to_search_page_with_filters, and it
\* returns True exactly when the page loaded, settled and was probed without an
\* exception and the sign-in button was not visible.
C10_NavigateTotal ==
    lastNav.kind # "none" =>
        /\ ~lastNav.raised
        /\ lastNav.ret <=> lastNav.obs = "clear"

\* A page navigation of the crawl loop raised and was classified SignInRequired.
C10_Witness == lastNav.kind = "page" /\ lastNav.obs = "exception" /\ ~lastNav.ret

\* the record stored under id in the mapping js
JobOf(js, id) == LET i == CHOOSE k \in 1..Len(js) : js[k].job_id = id IN js[i]

\* the iteration reached line 171: card clicked, the apply logic left without
\* `continue` and without an exception
PaneReachedRecord ==
    /\ pane.phase = "out"
    /\ ~InJobs(pane.jobs, pane.job_id)
    /\ pane.e.click = "ok"
    /\ ResolveApply(pane.e.apply).res = "keep"

\* what the five locators return on the modelled page, stripped
C11_Extracted ==
    [title |-> "Engineer", company |-> "Acme", job_info |-> "Remote",
     job_description |-> "Build things"]

\* C11: whichever subset of title, company, job_info, job_tags and
\* job_description fails to extract, the record is still built and inserted;
\* each failed field holds its sentinel ("N/A", the empty list for job_tags)
\* and every other field holds the value extracted for it.
C11_FieldFailuresIsolated ==
    PaneReachedRecord =>
        /\ InJobs(pane.r.jobs, pane.job_id)
        /\ LET job == JobOf(pane.r.jobs, pane.job_id) IN
           /\ \A f \in Fields \ {"job_tags"} :
                 job[f] = IF f \in pane.e.failed THEN "N/A" ELSE C11_Extracted[f]
           /\ job.job_tags = IF "job_tags" \in pane.e.failed THEN << >>
                              ELSE <<"Full-time">>

\* a record inserted although title, job_info and job_description failed while
\* company and job_tags were read
C11_Witness ==
    /\ PaneReachedRecord
    /\ pane.e.failed = {"title", "job_info", "job_description"}
    /\ InJobs(pane.r.jobs, pane.job_id)

\* positions of the calls of the iteration that satisfy Test
EvAt(Test(_)) == {i \in 1..Len(pane.ev) : Test(pane.ev[i])}

\* the apply control is visible, is not Easy Apply, and its click brings a new
\* tab that loads within the first wait
DirectPopup ==
    /\ pane.phase = "out"
    /\ ~InJobs(pane.jobs, pane.job_id)
    /\ pane.e.click = "ok"
    /\ pane.e.apply.probe = "visible"
    /\ pane.e.apply.label = "Apply"
    /\ pane.e.apply.first = "popup"

ConfirmThenPopup ==
    /\ pane.phase = "out"
    /\ ~InJobs(pane.jobs, pane.job_id)
    /\ pane.e.click = "ok"
    /\ pane.e.apply.probe = "visible"
    /\ pane.e.apply.label = "Apply"
    /\ pane.e.apply.first \in {"timeout", "clickfail"}
    /\ pane.e.apply.cont = "present"

\* C13: when the apply click brings no tab within the first wait and a Continue
\* control is present, Continue is clicked exactly once, the click comes before
\* the new tab of the second wait is awaited, and the URL of the tab that then
\* arrives is the apply_url of the record inserted.
C13_ConfirmThenPopup ==
    ConfirmThenPopup =>
        /\ Cardinality(EvAt(LAMBDA x : x.op = "click" /\ x.arg = "Continue")) = 1
        /\ \E w \in EvAt(LAMBDA x : x.op = "await_tab" /\ x.arg = "2") :
              \E c \in EvAt(LAMBDA x : x.op = "click" /\ x.arg = "Continue" /\ x.handler = 0) :
                 c < w
        /\ InJobs(pane.r.jobs, pane.job_id) =>
              /\ pane.e.apply.second = "popup"
              /\ JobOf(pane.r.jobs, pane.job_id).apply_url = "https://careers.example/apply"
              /\ \E u \in EvAt(LAMBDA x : x.on = "2" /\ x.op = "url") : TRUE

\* Continue was clicked, the second wait brought a tab, the record was inserted
C13_Witness ==
    /\ ConfirmThenPopup
    /\ pane.e.apply.first = "timeout"
    /\ pane.e.apply.second = "popup"
    /\ InJobs(pane.r.jobs, pane.job_id)

\* the apply control is visible and not Easy Apply, its click brings no tab
\* within the first wait, and the second wait brings none either (there is no
\* Continue control to click, or its click brings no tab in time)
NeitherPopup ==
    /\ pane.phase = "out"
    /\ ~InJobs(pane.jobs, pane.job_id)
    /\ pane.e.click = "ok"
    /\ pane.e.apply.probe = "visible"
    /\ pane.e.apply.label = "Apply"
    /\ pane.e.apply.first = "timeout"
    /\ (pane.e.apply.cont = "absent" \/ pane.e.apply.second = "timeout")

\* C14: when neither wait brings a tab the identifier is abandoned: the mapping
\* is left as it was (no record for the identifier, with or without apply_url),
\* and the last call of the iteration is the reload of the crawl page, which
\* has returned when the loop goes on to the next identifier.
C14_UnresolvedAbandoned ==
    NeitherPopup =>
        /\ pane.r.jobs = pane.jobs
        /\ ~InJobs(pane.r.jobs, pane.job_id)
        /\ Len(pane.ev) > 0
        /\ LET lastEv == pane.ev[Len(pane.ev)] IN
           /\ lastEv.on = "page" /\ lastEv.op = "reload"
           /\ pane.r.ctl = "continue" => lastEv.handler = 0
        /\ pane.r.ctl # "break"

\* neither wait brought a tab, the page was reloaded and the loop goes on
C14_Witness ==
    /\ NeitherPopup
    /\ pane.e.apply.cont = "present"
    /\ pane.r.ctl = "continue"
    /\ pane.r.out = "apply_error"

\* C15: an identifier whose card cannot be scrolled to or clicked is abandoned
\* without a record, and the for loop goes on with the next identifier of the
\* same page (or, after the last one, with the next page): the failure ends
\* neither the loop nor the run.
C15_CardClickFailureSkips ==
    [][(pc = "details" /\ last' = "click_failed") =>
          /\ jobs' = jobs
          /\ ending' = ending
          /\ page_num' = page_num
          /\ job_ids_left > 1 => (pc' = "details" /\ job_ids_left' = job_ids_left - 1)
          /\ job_ids_left = 1 => pc' = "advance"]_vars

\* a card click failed and the loop is at the next identifier of the page
C15_Witness ==
    /\ pc = "details"
    /\ last = "click_failed"
    /\ job_ids_left >= 1
    /\ ending = "none"

\* C16: after any call of the flush, one that fails part-way included, the
\* file holds a row for every accumulated record or for none of them, never
\* for a non-empty proper part of them.
C16_FlushAtomic ==
    flushes >= 1 =>
        \/ ~csv.exists
        \/ csv.rows = << >>
        \/ csv.rows = CsvRows(jobs)

\* C17: the loader is an idempotent insert-or-skip keyed by job_id: a row whose
\* job_id is already stored leaves the stored row as it is, a row with a new
\* job_id is inserted with the values read from the file, and loading the same
\* file a second time leaves the table as the first load left it.
C17_LoaderInsertOrSkip ==
    db.phase = "open" =>
        /\ \A r \in db.start : r \in db.table
        /\ \A r1 \in db.table : \A r2 \in db.table : r1.job_id = r2.job_id => r1 = r2
        /\ db.loads >= 1 =>
              \A i \in 1..Len(db.file) :
                 /\ \E r \in db.table : r.job_id = db.file[i].job_id
                 /\ (/\ \A r \in db.start : r.job_id # db.file[i].job_id
                     /\ \A k \in 1..(i - 1) : db.file[k].job_id # db.file[i].job_id)
                    => RowValues(db.file[i]) \in db.table
        /\ db.loads >= 2 => db.table = db.once

\* the file was loaded twice; one of its rows was skipped for a stored row
\* with other values and another was inserted
C17_Witness ==
    /\ db.phase = "open"
    /\ db.loads = 2
    /\ \E i \in 1..Len(db.file) :
          /\ RowValues(db.file[i]) \notin db.table
          /\ \E r \in db.start : r.job_id = db.file[i].job_id
    /\ db.table # db.start

\* the model replied a JSON object with an integer score and a reasoning,
\* bare or inside a pair of fences
C18_WellFormed ==
    /\ match.reply.kind = "text"
    /\ match.reply.valid
    /\ match.reply.score.t = "int"
    /\ match.reply.reasoning = "text"
    /\ \/ match.reply.open = "" /\ match.reply.close = ""
       \/ match.reply.open # "" /\ match.reply.close = "fence"

\* C18: whatever the language-model call does (a well-formed reply with any
\* integer score, a malformed reply, an exception), analyze_job_match returns
\* a result; its score is an integer of 0..10, the replied score clamped into
\* that range, and 0 whenever the call or the parsing failed.
C18_ScorerTotalAndBounded ==
    (match.phase = "done" /\ match.r.called) =>
        /\ ~match.r.raised
        /\ match.r.result.score \in 0..10
        /\ match.r.error = ~C18_WellFormed
        /\ match.r.error => match.r.result.score = 0
        /\ C18_WellFormed =>
              LET n == match.reply.score.n IN
              match.r.result.score = IF n < 0 THEN 0 ELSE IF n > 10 THEN 10 ELSE n

\* a well-formed reply with a score above 10 came back clamped
C18_Witness ==
    /\ match.phase = "done"
    /\ match.r.called
    /\ C18_WellFormed
    /\ match.reply.score.n > 10
    /\ match.r.result.score = 10

\* C19: every failure that is caught and recovered from is logged before the
\* iteration goes on: a card click, a field extraction or an apply-logic call
\* that raised into its except clause is followed by a message on stdout.
C19_NoSilentFailure ==
    pane.phase = "out" =>
        \A i \in 1..Len(pane.ev) :
           pane.ev[i].handler \in {107, 113, 119, 125, 133, 166, 174} =>
              /\ i < Len(pane.ev)
              /\ pane.ev[i + 1].on = "stdout"
              /\ pane.ev[i + 1].op = "log"

\* C20: the session token file is written at most once in a run and only by
\* login(); login() is entered only from an initial navigation that did not
\* return True, so a run whose initial navigation is authenticated never
\* writes the file.
C20_TokenWrittenOnlyByLogin ==
    /\ [](token.writes <= 1)
    /\ []((pc \notin {"start", "login"} /\ creds = "unused") => token.writes = 0)
    /\ [][token' # token => (pc = "login" /\ token'.writes = token.writes + 1)]_vars
    /\ [][pc' = "login" => (pc = "start" /\ ~lastNav'.ret)]_vars
    /\ [][(pc = "start" /\ lastNav'.ret /\ ~lastNav'.raised) => pc' = "while"]_vars

\* a run that logged in, wrote the file once and crawled to its end
C20_Witness ==
    /\ pc = "done"
    /\ token.state = "written"
    /\ token.writes = 1
    /\ Len(jobs) >= 1

\* C21: the token file is written only by a login that succeeded: when the
\* site rejected the submitted credentials the file has not been written and
\* a token stored by an earlier run is still the one on disk.
C21_TokenOnlyOnSuccessfulLogin ==
    creds = "rejected" => (token.writes = 0 /\ token.state # "written")

\* the tabs that the apply logic caused to open during the iteration
TabsOpened == {k \in {"1", "2"} :
                 EvAt(LAMBDA x : x.op = "await_tab" /\ x.arg = k /\ x.handler = 0) # {}}

\* C22: when the iteration is over (the next identifier or the flush follows)
\* every tab that the apply logic caused to open has been closed, on every
\* path: also when the tab's load wait failed or an exception came after the
\* tab had opened.
C22_NoTabLeak ==
    pane.phase = "out" =>
        \A k \in TabsOpened :
           EvAt(LAMBDA x : x.on = k /\ x.op = "close" /\ x.handler = 0) # {}

\* C23: an exception of the apply logic costs only its identifier: nothing is
\* stored, and the for loop goes on with the next identifier (the next page
\* after the last one); it does not leave save_job_details and does not end
\* the crawl loop.
C23_ApplyExceptionPerRecord ==
    [][(pc = "details" /\ last' = "apply_error") =>
          /\ jobs' = jobs
          /\ ending' = ending
          /\ pc' \in {"details", "advance"}]_vars

\* C24: in every iteration the five fields are read before the apply logic
\* starts: no field is read from the page after the apply control was probed,
\* clicked, or the page reloaded.
C24_FieldsBeforeApply ==
    pane.phase = "out" =>
        \A i \in EvAt(LAMBDA x : x.op = "extract") :
           \A j \in EvAt(LAMBDA x : x.op \in {"is_visible", "inner_text", "expect_page",
                                             "await_tab", "reload"}) : i < j

\* both events can fire: the apply click brings a tab that loads within the
\* first wait, and a Continue control is on the page
BothCouldFire ==
    /\ DirectPopup
    /\ pane.e.apply.cont = "present"

C26_TagsRoundTrip ==
    (db.phase = "open" /\ db.loads >= 1) =>
        \A i \in 1..Len(db.jobs) :
           (/\ \A r \in db.start : r.job_id # db.jobs[i].job_id
            /\ \A k \in 1..(i - 1) : db.jobs[k].job_id # db.jobs[i].job_id)
           => \E r \in db.table : /\ r.job_id = db.jobs[i].job_id
                                  /\ r.job_tags = db.jobs[i].job_tags

\* the iteration stored a record for an identifier that had none
PaneInserted ==
    /\ pane.phase = "out"
    /\ ~InJobs(pane.jobs, pane.job_id)
    /\ InJobs(pane.r.jobs, pane.job_id)

\* C27: a stored record has an empty apply_url exactly when its apply control
\* was not visible; in that case nothing is clicked, awaited or reloaded and
\* the record is stored with apply_url = ""; an iteration whose apply logic
\* timed out or raised stores no record.
C27_EmptyApplyUrlIffHidden ==
    /\ PaneInserted =>
          (JobOf(pane.r.jobs, pane.job_id).apply_url = "" <=> pane.e.apply.probe = "hidden")
    /\ (/\ pane.phase = "out"
        /\ ~InJobs(pane.jobs, pane.job_id)
        /\ pane.e.click = "ok"
        /\ pane.e.apply.probe = "hidden") =>
          /\ PaneInserted
          /\ JobOf(pane.r.jobs, pane.job_id).apply_url = ""
          /\ EvAt(LAMBDA x : x.op \in {"expect_page", "await_tab", "reload"}) = {}
          /\ EvAt(LAMBDA x : x.op = "click" /\ x.arg # "card") = {}
    /\ (pane.phase = "out" /\ EvAt(LAMBDA x : x.handler = 166) # {}) =>
          ~InJobs(pane.r.jobs, pane.job_id)

\* a record stored with an empty apply_url for a posting without apply control
C27_Witness ==
    /\ PaneInserted
    /\ pane.e.apply.probe = "hidden"
    /\ JobOf(pane.r.jobs, pane.job_id).apply_url = ""

\* C28: identifiers are collected and detail panes read only while the most
\* recent navigation returned True (no sign-in button, no exception).
C28_EnumerateOnlyAuthenticated ==
    pc \in {"collect", "details"} => lastNav.ret

\* C29: within a run the card of an identifier is clicked at most once: an
\* identifier already processed, stored or discarded, is skipped when a later
\* enumeration returns it again.
C29_CardClickedAtMostOnce ==
    pane.phase \in {"visit", "left"} => pane.clicks <= 1

\* C29, amended: an identifier is skipped, its card not clicked, exactly when
\* a record for it is in jobs; an identifier that was discarded (Easy Apply,
\* click failure, apply error) is not in jobs and its card is clicked again
\* each time an enumeration returns it. A record is stored for it at most once.
C29_SkippedIffStored ==
    /\ [][(pane.phase = "visit" /\ pane'.phase \in {"visit", "left"}) =>
             IF pane.job_id \in JobIdsOf(pane.jobs)
             THEN /\ pane'.clicks = pane.clicks
                  /\ pane'.jobs = pane.jobs
                  /\ pane'.outs = Append(pane.outs, "skipped")
             ELSE /\ pane'.clicks = pane.clicks + 1
                  /\ pane'.outs[Len(pane'.outs)] # "skipped"]_vars
    /\ [](pane.phase \in {"visit", "left"} =>
             Cardinality({i \in 1..Len(pane.outs) : pane.outs[i] = "saved"}) <= 1)

\* a posting discarded as Easy Apply and returned again by the next
\* enumeration: its card has been clicked twice
C29_Witness ==
    /\ pane.phase \in {"visit", "left"}
    /\ Len(pane.outs) >= 2
    /\ pane.outs[1] = "easy_apply"
    /\ pane.outs[2] \in {"easy_apply", "click_failed", "apply_error", "saved"}
    /\ pane.clicks = 2

\* C30: a job whose analysis failed during score_jobs is stored like a scored
\* job: match_score 0 and scored_at are persisted and it counts as processed,
\* so that a later score-new run does not select it again; and in every run
\* processed + errors is the number of jobs selected.
C30_FailedAnalysisStoredAsScored ==
    (match.phase = "runs" /\ match.runs >= 1) =>
        /\ ~match.run.raised
        /\ match.run.processed + match.run.errors = Len(match.run.selected)
        /\ \A id \in match.run.failed :
              /\ db.table[id].scored
              /\ db.table[id].score = 0
              /\ db.table[id].stamped
        /\ match.run.mode = "unscored" =>
              \A k \in 1..Len(match.run.selected) : match.run.selected[k] \notin match.earlier

====
